---- MODULE Spec2Model ----
(***************************************************************************)
(* Moderation workflow of the Iftar directory: the places, reviews and     *)
(* place_image_submissions tables (shared/schema.ts), the storage methods  *)
(* of DatabaseStorage (server/storage.ts) and the route handlers that call *)
(* them (server/routes.ts).  Every handler is a sequence of SQL statements *)
(* separated by awaits; one action of the model is one statement together  *)
(* with the synchronous code that follows it up to the next await.         *)
(* Spec interleaves the handlers statement by statement; SeqSpec handles   *)
(* the requests one at a time and keeps, in pre, the tables as the last    *)
(* request found them; in both the tables start empty.  SeqSpec also has   *)
(* the guards of server/auth.ts with the users table, the requests that    *)
(* are refused, and the read routes, which answer in one step.  ListSpec   *)
(* is the list routes alone on larger tables, NearSpec the nearby route on  *)
(* a table of places with and without coordinates, and SeedSpec the seed   *)
(* step every createApp call runs before the application is returned.      *)
(***************************************************************************)
EXTENDS Integers, Sequences, FiniteSets, TLC

\* ------------------------------------------------------------------ bounds
MaxPlaces == 2          \* place rows ever inserted
MaxReviews == 2         \* review rows ever inserted
MaxSubs == 3            \* image submission rows ever inserted
MaxHandlers == 2        \* multi-statement handlers in flight at the same time
MaxRequests == 4        \* requests accepted in one behaviour
MaxListedPlaces == 232  \* place rows in the tables the list routes read (ListSpec)
MaxListedReviews == 20  \* review rows of one place in those tables (ListSpec)
MaxNearPlaces == 30     \* place rows in the table the nearby route reads (NearSpec)
MaxStartups == 2        \* createApp calls in one behaviour (SeedSpec)

\* ------------------------------------------------------------------ values
Null == "null"
Now == "now"                                   \* new Date(): a non-null timestamp
Creators == {"user1"}                          \* users who post places
Reviewers == {"user1", "user2"}                \* users who post reviews
Submitters == {"user2"}                        \* users who post photos
Admins == {"admin1"}                           \* users with isAdmin true
UrlA == "https://res.cloudinary.com/a.jpg"
UrlB == "https://res.cloudinary.com/b.jpg"
UrlC == "https://example.org/c.jpg"
Urls == {UrlA, UrlB, UrlC}
NotUrl == "not a url"
Handlers == 1..MaxHandlers
ListLimit == 200                               \* .limit(200) of getPlaces
NotUuid == -1                                  \* an id that is not the text of a uuid
PlaceIds == 1..MaxPlaces
SubIds == 1..MaxSubs

VARIABLES
    places,        \* table places: set of rows
    reviews,       \* table reviews: set of rows
    submissions,   \* table place_image_submissions: set of rows
    nextPlaceId,   \* ids handed out so far by places.id
    nextReviewId,  \* ... by reviews.id
    nextSubId,     \* ... by place_image_submissions.id
    h,             \* h[c]: the request handler suspended at an await in slot c
    resp,          \* the response sent last
    nreq,          \* requests accepted so far
    serial,        \* TRUE when no request arrives while another is being handled
    pre,           \* when serial: the tables as the last request accepted found them
    users          \* table users: set of rows

vars == <<places, reviews, submissions, nextPlaceId, nextReviewId, nextSubId, h, resp, nreq, serial, pre, users>>
ids == <<nextPlaceId, nextReviewId, nextSubId>>

\* ------------------------------------------------------------------ helpers
EmptyBody == [k \in {} |-> Null]

\* The rows a query selects, as the array the driver returns.
RECURSIVE RowsOf(_)
RowsOf(S) ==
    IF S = {} THEN <<>>
    ELSE LET r == CHOOSE x \in S : \A y \in S : x.id <= y.id
         IN <<r>> \o RowsOf(S \ {r})

\* A handler slot: the route (op), the statement it runs next (pc), the request
\* (user = req.user.id, placeId / subId = req.params.id, arg = the validated
\* field of req.body) and the handler's locals (rows: the array its SELECT or
\* UPDATE ... RETURNING gave, urls: imagesToRoute not yet submitted, ret: the
\* value the storage method will return).
Idle ==
    [op |-> "idle", pc |-> "idle", user |-> Null, placeId |-> 0, subId |-> 0,
     arg |-> Null, rows |-> <<>>, urls |-> <<>>, ret |-> <<>>]

Request(op, user, placeId, subId, arg) ==
    [Idle EXCEPT !.op = op, !.user = user, !.placeId = placeId,
                 !.subId = subId, !.arg = arg]

\* res.status(status).json(...): ret is the storage result behind the body,
\* field the path of the first validation issue of a 400.
NoResponse ==
    [op |-> "none", user |-> Null, placeId |-> 0, subId |-> 0, arg |-> Null,
     status |-> 0, field |-> Null, ret |-> <<>>]

Response(r, status, field, ret) ==
    [op |-> r.op, user |-> r.user, placeId |-> r.placeId, subId |-> r.subId,
     arg |-> r.arg, status |-> status, field |-> field, ret |-> ret]

\* The users table when the service starts: the users who have signed in
\* before, one of them with the admin flag set.
UserRow(uid, isAdmin) == [id |-> uid, firebaseUid |-> uid, isAdmin |-> isAdmin]
KnownUsers ==
    {UserRow(u, FALSE) : u \in Creators \cup Reviewers \cup Submitters}
        \cup {UserRow(a, TRUE) : a \in Admins}

\* A request is accepted into the lowest free slot.
Free(c) == h[c].pc = "idle" /\ \A d \in Handlers : d < c => h[d].pc # "idle"
Snapshot == [places |-> places, reviews |-> reviews, submissions |-> submissions]
Quiet == \A c \in Handlers : h[c].pc = "idle"
Arrive ==
    /\ nreq < MaxRequests
    /\ serial => Quiet
    /\ nreq' = nreq + 1
    /\ pre' = IF serial THEN Snapshot ELSE pre
    /\ UNCHANGED serial

\* A request of a user who has signed in before: isAuthenticated finds the row
\* of the user and leaves the users table as it is.
Accept == Arrive /\ UNCHANGED users

Tables ==
    /\ places = {}
    /\ reviews = {}
    /\ submissions = {}
    /\ nextPlaceId = 1
    /\ nextReviewId = 1
    /\ nextSubId = 1
    /\ h = [c \in Handlers |-> Idle]
    /\ resp = NoResponse
    /\ nreq = 0
    /\ pre = [places |-> {}, reviews |-> {}, submissions |-> {}]
    /\ users = KnownUsers

Init == Tables /\ serial = FALSE

\* A request that writes to none of the three tables leaves to the requests
\* after it what they would have found without it: it is taken as the last
\* request of a behaviour. These are the read routes, and
LastRequest == nreq = MaxRequests - 1

\* the requests that are answered before their handler awaits the datastore a
\* second time (a body that fails validation, a credential the guards refuse,
\* an id that is no uuid). Those take part in no interleaving either: they
\* are drawn when the requests are handled one at a time.
Refusable == serial /\ LastRequest
SeqInit == Tables /\ serial = TRUE

\* ------------------------------------------------------------------ schema
\* A column of an INSERT: the value given, else the column default.
Col(values, k, dflt) == IF k \in DOMAIN values THEN values[k] ELSE dflt

\* z.string().url()
IsUrl(v) == v \in Urls

\* The hostname of new URL(v), for v a URL.
Hostname(v) == IF v \in {UrlA, UrlB} THEN "res.cloudinary.com" ELSE "example.org"

\* Keys of insertPlaceSchema: the columns of places less the omitted ones.
InsertPlaceKeys ==
    {"name", "description", "location", "latitude", "longitude",
     "imageUrl1", "imageUrl2", "imageUrl3"}

\* The path of the first issue insertPlaceSchema.parse raises, Null if none.
\* name and location are z.string(), which the empty string satisfies.
insertPlaceSchemaError(body) ==
    IF "name" \notin DOMAIN body THEN "name"
    ELSE IF "location" \notin DOMAIN body THEN "location"
    ELSE IF body.imageUrl1 # Null /\ ~IsUrl(body.imageUrl1) THEN "imageUrl1"
    ELSE IF body.imageUrl2 # Null /\ ~IsUrl(body.imageUrl2) THEN "imageUrl2"
    ELSE IF body.imageUrl3 # Null /\ ~IsUrl(body.imageUrl3) THEN "imageUrl3"
    ELSE Null

\* A parse that lets the keys the schema omits through.
insertPlaceSchemaPassthrough(body) == body

\* The value of insertPlaceSchema.parse: a zod object strips unknown keys.
insertPlaceSchemaParse(body) ==
    [k \in DOMAIN body \cap InsertPlaceKeys |-> body[k]]

\* Request bodies of POST /api/places: zero to three images (one body with a
\* gap between them), with and without the approval fields, three bodies
\* that fail, and one with the empty string as name and one with it as
\* location.
ApprovalFields == [approved |-> TRUE, approvedBy |-> "user1", approvedAt |-> Now]
ImageFields ==
    { [imageUrl1 |-> Null, imageUrl2 |-> Null, imageUrl3 |-> Null],
      [imageUrl1 |-> UrlB, imageUrl2 |-> Null, imageUrl3 |-> Null],
      [imageUrl1 |-> UrlB, imageUrl2 |-> UrlC, imageUrl3 |-> Null],
      [imageUrl1 |-> UrlB, imageUrl2 |-> Null, imageUrl3 |-> UrlC],
      [imageUrl1 |-> UrlB, imageUrl2 |-> UrlC, imageUrl3 |-> UrlB] }
ValidPlaceBodies ==
    { [name |-> "Al Safa", location |-> "Dubai"] @@ i @@ a :
        i \in ImageFields,
        a \in {EmptyBody, [approved |-> TRUE], ApprovalFields} }
PlaceBodies ==
    ValidPlaceBodies \cup
    { [location |-> "Dubai", imageUrl1 |-> Null, imageUrl2 |-> Null, imageUrl3 |-> Null],
      [name |-> "Al Safa", imageUrl1 |-> Null, imageUrl2 |-> Null, imageUrl3 |-> Null] @@ ApprovalFields,
      [name |-> "Al Safa", location |-> "Dubai", imageUrl1 |-> NotUrl,
       imageUrl2 |-> Null, imageUrl3 |-> Null],
      [name |-> "", location |-> "Dubai", imageUrl1 |-> Null,
       imageUrl2 |-> Null, imageUrl3 |-> Null],
      [name |-> "Al Safa", location |-> "", imageUrl1 |-> Null,
       imageUrl2 |-> Null, imageUrl3 |-> Null] }

\* ------------------------------------------------------------------ auth
\* Authorization headers: none (or one that does not start with "Bearer "), a
\* token the identity provider refuses, and the tokens of a user without the
\* admin flag, of someone who has not signed in before, and of an admin.
Credentials == {"none", "Bearer junk", "Bearer user2", "Bearer user3", "Bearer admin1"}

\* getFirebaseUser(idToken).uid, Null when the verification throws.
getFirebaseUser(cred) ==
    CASE cred = "Bearer user2" -> "user2"
      [] cred = "Bearer user3" -> "user3"
      [] cred = "Bearer admin1" -> "admin1"
      [] OTHER -> Null

\* The users table isAuthenticated leaves: with a verified token it finds the
\* row of the uid or, on first sight of the uid, inserts one (isAdmin takes
\* the column default).  The SELECT and the INSERT are taken as one step.
FindOrCreateUser(U, cred) ==
    LET uid == getFirebaseUser(cred)
    IN IF cred = "none" \/ uid = Null \/ \E u \in U : u.firebaseUid = uid
       THEN U
       ELSE U \cup {UserRow(uid, FALSE)}

\* req.user.id as isAuthenticated sets it.
ReqUser(cred) == getFirebaseUser(cred)

\* The guard without its check of the admin flag.
AdminGateAnyUser(U, cred) ==
    IF cred = "none" THEN 401
    ELSE IF getFirebaseUser(cred) = Null THEN 401
    ELSE 0

\* isAuthenticated followed by isAdmin: the status the request is answered
\* with, 0 when both call next().
AdminGate(U, cred) ==
    IF cred = "none" THEN 401
    ELSE IF getFirebaseUser(cred) = Null THEN 401
    ELSE IF \E u \in FindOrCreateUser(U, cred) :
                u.firebaseUid = getFirebaseUser(cred) /\ u.isAdmin
         THEN 0
    ELSE 403

\* The answer of the guards: op names the middleware that answered (401
\* isAuthenticated, 403 isAdmin), field the route that was asked for; the
\* route's handler has not been called.
Denied(r, gate) ==
    Response([r EXCEPT !.op = IF gate = 401 THEN "isAuthenticated" ELSE "isAdmin"],
             gate, r.op, <<>>)

\* Requests to the admin endpoints that take an id: the admin's for every id
\* and for an id that is no uuid, the others' for one id.
AdminPlaceRequests ==
    { <<cred, placeId>> \in Credentials \X (PlaceIds \cup {NotUuid}) :
        IF cred = "Bearer admin1" THEN placeId # NotUuid \/ Refusable
        ELSE Refusable /\ placeId = 1 }
AdminImageRequests ==
    { <<cred, subId>> \in Credentials \X (SubIds \cup {NotUuid}) :
        IF cred = "Bearer admin1" THEN subId # NotUuid \/ Refusable
        ELSE Refusable /\ subId = 1 }

\* ------------------------------------------------------------------ storage
\* The row INSERT INTO places ... RETURNING yields for the given values.
PlaceRow(values, id) ==
    [id |-> id,
     name |-> values.name,
     location |-> values.location,
     createdBy |-> values.createdBy,
     latitude |-> Col(values, "latitude", Null),
     longitude |-> Col(values, "longitude", Null),
     imageUrl1 |-> Col(values, "imageUrl1", Null),
     imageUrl2 |-> Col(values, "imageUrl2", Null),
     imageUrl3 |-> Col(values, "imageUrl3", Null),
     approved |-> Col(values, "approved", FALSE),
     approvedBy |-> Col(values, "approvedBy", Null),
     approvedAt |-> Col(values, "approvedAt", Null)]

\* ------------------------------------------------------------------ routes
\* POST /api/places: parse, then storage.createPlace (one INSERT).
CreatePlace ==
    \E user \in Creators, body \in (IF Refusable THEN PlaceBodies ELSE ValidPlaceBodies) :
        /\ Accept
        /\ LET r == Request("createPlace", user, 0, 0, Null)
               err == insertPlaceSchemaError(body)
               input == insertPlaceSchemaParse(body)
               row == PlaceRow([createdBy |-> user] @@ input, nextPlaceId)
           IN IF err # Null
              THEN /\ resp' = Response(r, 400, err, <<>>)
                   /\ UNCHANGED <<places, nextPlaceId>>
              ELSE /\ nextPlaceId <= MaxPlaces
                   /\ places' = places \cup {row}
                   /\ nextPlaceId' = nextPlaceId + 1
                   /\ resp' = Response(r, 201, Null, <<row>>)
        /\ UNCHANGED <<reviews, submissions, nextReviewId, nextSubId, h>>

\* The rating of a request body: a JSON number is counted in tenths, and two
\* numbers below every tenth stand for a body without the key and for a
\* rating that is a string.
Undefined == -1
NotANumber == -2
RatingOf(body) == IF "rating" \in DOMAIN body THEN body.rating ELSE Undefined

\* The schema without its .max(5).
insertReviewSchemaNoMax(body) ==
    IF RatingOf(body) \in {Undefined, NotANumber} THEN "rating"
    ELSE IF body.rating < 10 THEN "rating"
    ELSE Null

\* z.number().min(1).max(5) on the rating of insertReviewSchema: the path of
\* the first issue, Null if none.
insertReviewSchemaError(body) ==
    IF RatingOf(body) \in {Undefined, NotANumber} THEN "rating"
    ELSE IF body.rating < 10 \/ body.rating > 50 THEN "rating"
    ELSE Null

\* Requests to POST /api/places/:id/reviews: a body with the rating 5 from
\* every user for every place id, and the bodies that the schema or the
\* integer column refuses (no rating, a string, 0, 6 and 4.5). The rating 4 is
\* drawn, from one user, when the requests are handled one at a time: only
\* the read routes, which answer then, tell one rating from another.
ReviewBodies ==
    {EmptyBody, [rating |-> NotANumber], [rating |-> 0], [rating |-> 40],
     [rating |-> 45], [rating |-> 50], [rating |-> 60]}
ReviewRequests ==
    { <<user, placeId, body>> \in Reviewers \X PlaceIds \X ReviewBodies :
        IF insertReviewSchemaError(body) = Null /\ body.rating % 10 = 0
        THEN body.rating = 50 \/ (serial /\ user = "user2")
        ELSE Refusable /\ user = "user1" /\ placeId = 1 }
        \cup (IF Refusable
              THEN {<<"user1", NotUuid, [rating |-> 50]>>, <<"user1", NotUuid, [rating |-> 0]>>}
              ELSE {})

\* The lookup with the place id compared to the wrong column.
hasUserReviewedPlaceWrongColumn(userId, placeId) ==
    \E r \in reviews : r.userId = userId /\ r.id = placeId

\* storage.hasUserReviewedPlace
hasUserReviewedPlace(userId, placeId) ==
    \E r \in reviews : r.userId = userId /\ r.placeId = placeId

\* The reviews table with a unique index on (user_id, place_id).
ReviewInsertUnique(row) ==
    /\ \E p \in places : p.id = row.placeId
    /\ ~\E r \in reviews : r.userId = row.userId /\ r.placeId = row.placeId

\* What the reviews table asks of an INSERT: the foreign key to places, and no
\* unique index on (user_id, place_id).
ReviewInsertAllowed(row) == \E p \in places : p.id = row.placeId

\* The tables declared without their foreign keys.
NoForeignKey(placeId) == TRUE

\* The foreign keys reviews.place_id and place_image_submissions.place_id:
\* an INSERT must reference a place row that exists.
PlaceExists(placeId) == \E p \in places : p.id = placeId

\* POST /api/places/:id/reviews, up to the await of createReview: the
\* hasUserReviewedPlace SELECT (which throws on an id that is no uuid: the
\* route rethrows and the global error handler answers), the 409, and the
\* parse of the body.
CreateReview_check(c) ==
    \E <<user, placeId, body>> \in ReviewRequests :
        /\ Free(c)
        /\ Accept
        /\ LET r == Request("createReview", user, placeId, 0, RatingOf(body))
               err == insertReviewSchemaError(body)
           IN IF placeId = NotUuid
              THEN resp' = Response(r, 500, Null, <<>>) /\ UNCHANGED h
              ELSE IF hasUserReviewedPlace(user, placeId)
              THEN resp' = Response(r, 409, Null, <<>>) /\ UNCHANGED h
              ELSE IF err # Null
              THEN resp' = Response(r, 400, err, <<>>) /\ UNCHANGED h
              ELSE /\ h' = [h EXCEPT ![c] = [r EXCEPT !.pc = "insert"]]
                   /\ UNCHANGED resp
        /\ UNCHANGED <<places, reviews, submissions, ids>>

\* The column rating is integer: the INSERT of a number that is not whole
\* fails ("invalid input syntax for type integer").
IsInteger(tenths) == tenths % 10 = 0

\* storage.createReview: the INSERT, then the 201; a foreign-key violation or
\* a value the column refuses is rethrown by the route and answered by the
\* global error handler.
CreateReview_insert(c) ==
    /\ h[c].op = "createReview" /\ h[c].pc = "insert"
    /\ LET r == h[c]
           row == [id |-> nextReviewId, placeId |-> r.placeId, userId |-> r.user,
                   rating |-> r.arg \div 10]
       IN IF ReviewInsertAllowed(row) /\ IsInteger(r.arg)
          THEN /\ nextReviewId <= MaxReviews
               /\ reviews' = reviews \cup {row}
               /\ nextReviewId' = nextReviewId + 1
               /\ resp' = Response(r, 201, Null, <<row>>)
          ELSE /\ resp' = Response(r, 500, Null, <<>>)
               /\ UNCHANGED <<reviews, nextReviewId>>
    /\ h' = [h EXCEPT ![c] = Idle]
    /\ UNCHANGED <<places, submissions, nextPlaceId, nextSubId, nreq, serial, pre, users>>

\* The row storage.submitPlaceImage inserts.
SubmissionRow(id, placeId, userId, imageUrl) ==
    [id |-> id, placeId |-> placeId, imageUrl |-> imageUrl, submittedBy |-> userId,
     approved |-> FALSE, approvedBy |-> Null, approvedAt |-> Null]

\* The filter that loses the third slot.
ImagesToRouteFirstTwo(p) ==
    (IF p.imageUrl1 # Null THEN <<p.imageUrl1>> ELSE <<>>) \o
    (IF p.imageUrl2 # Null THEN <<p.imageUrl2>> ELSE <<>>)

\* The non-null image URLs of a place, slots 1, 2, 3 in order:
\* [imageUrl1, imageUrl2, imageUrl3].filter(Boolean).
ImagesToRoute(p) ==
    (IF p.imageUrl1 # Null THEN <<p.imageUrl1>> ELSE <<>>) \o
    (IF p.imageUrl2 # Null THEN <<p.imageUrl2>> ELSE <<>>) \o
    (IF p.imageUrl3 # Null THEN <<p.imageUrl3>> ELSE <<>>)

\* The UPDATE without its approvedBy column.
ApprovedRowNoApprover(p, adminUserId) ==
    [p EXCEPT !.approved = TRUE, !.approvedAt = Now,
              !.imageUrl1 = Null, !.imageUrl2 = Null, !.imageUrl3 = Null]

\* The UPDATE that forgets to clear the third slot.
ApprovedRowKeepsSlot3(p, adminUserId) ==
    [p EXCEPT !.approved = TRUE, !.approvedBy = adminUserId, !.approvedAt = Now,
              !.imageUrl1 = Null, !.imageUrl2 = Null]

\* The UPDATE that sets the approval fields and leaves the slots alone.
ApprovedRowKeepsSlots(p, adminUserId) ==
    [p EXCEPT !.approved = TRUE, !.approvedBy = adminUserId, !.approvedAt = Now]

\* The SET clause of approvePlace's UPDATE.
ApprovedRow(p, adminUserId) ==
    [p EXCEPT !.approved = TRUE, !.approvedBy = adminUserId, !.approvedAt = Now,
              !.imageUrl1 = Null, !.imageUrl2 = Null, !.imageUrl3 = Null]

\* The status PATCH /api/admin/places/:id/approve answers with.
ApproveStatus(ret) == IF ret = <<>> THEN 404 ELSE 200

\* storage.approvePlace, statement 1: the SELECT of the creator and the slots.
ApprovePlace_select(c) ==
    \E <<cred, placeId>> \in AdminPlaceRequests :
        /\ Free(c)
        /\ Arrive
        /\ users' = FindOrCreateUser(users, cred)
        /\ LET r == Request("approvePlace", ReqUser(cred), placeId, 0, Null)
               gate == AdminGate(users, cred)
               rows == RowsOf({p \in places : p.id = placeId})
           IN IF gate # 0
              THEN resp' = Denied(r, gate) /\ UNCHANGED h
              ELSE IF placeId = NotUuid
              THEN resp' = Response(r, 500, Null, <<>>) /\ UNCHANGED h
              ELSE IF rows = <<>>
              THEN resp' = Response(r, 404, Null, <<>>) /\ UNCHANGED h
              ELSE /\ h' = [h EXCEPT ![c] = [r EXCEPT !.pc = "update", !.rows = rows]]
                   /\ UNCHANGED resp
        /\ UNCHANGED <<places, reviews, submissions, ids>>

\* storage.approvePlace, statement 2: the UPDATE ... RETURNING; with no image
\* to route the method returns at once.
ApprovePlace_update(c) ==
    /\ h[c].op = "approvePlace" /\ h[c].pc = "update"
    /\ LET r == h[c]
           hit == {p \in places : p.id = r.placeId}
           ret == RowsOf({ApprovedRow(p, r.user) : p \in hit})
           urls == ImagesToRoute(r.rows[1])
       IN /\ places' = (places \ hit) \cup {ApprovedRow(p, r.user) : p \in hit}
          /\ IF urls = <<>>
             THEN /\ resp' = Response(r, ApproveStatus(ret), Null, ret)
                  /\ h' = [h EXCEPT ![c] = Idle]
             ELSE /\ h' = [h EXCEPT ![c] = [r EXCEPT !.pc = "route", !.urls = urls, !.ret = ret]]
                  /\ UNCHANGED resp
    /\ UNCHANGED <<reviews, submissions, ids, nreq, serial, pre, users>>

\* storage.approvePlace, statement 3, once per image: submitPlaceImage in the
\* name of the place's creator; after the last one the method returns.
ApprovePlace_route(c) ==
    /\ h[c].op = "approvePlace" /\ h[c].pc = "route"
    /\ LET r == h[c]
           row == SubmissionRow(nextSubId, r.placeId, r.rows[1].createdBy, Head(r.urls))
       IN IF ~PlaceExists(r.placeId)
          THEN /\ resp' = Response(r, 500, Null, <<>>)
               /\ h' = [h EXCEPT ![c] = Idle]
               /\ UNCHANGED <<submissions, nextSubId>>
          ELSE /\ nextSubId <= MaxSubs
               /\ submissions' = submissions \cup {row}
               /\ nextSubId' = nextSubId + 1
               /\ IF Tail(r.urls) = <<>>
                  THEN /\ resp' = Response(r, ApproveStatus(r.ret), Null, r.ret)
                       /\ h' = [h EXCEPT ![c] = Idle]
                  ELSE /\ h' = [h EXCEPT ![c] = [r EXCEPT !.urls = Tail(r.urls)]]
                       /\ UNCHANGED resp
    /\ UNCHANGED <<places, reviews, nextPlaceId, nextReviewId, nreq, serial, pre, users>>

\* rejectPlace without its first DELETE.
DeleteReviewsNone(R, placeId) == R

\* The foreign key declared without ON DELETE CASCADE.
NoCascade(S, placeId) == S

\* DELETE FROM reviews WHERE place_id = placeId: the rows that stay.
DeleteReviewsOf(R, placeId) == {r \in R : r.placeId # placeId}

\* ON DELETE CASCADE of place_image_submissions.place_id: the rows that stay
\* when the place is deleted.
CascadeSubmissions(S, placeId) == {s \in S : s.placeId # placeId}

\* storage.rejectPlace, statement 1: DELETE FROM reviews WHERE place_id = id.
RejectPlace_deleteReviews(c) ==
    \E <<cred, placeId>> \in AdminPlaceRequests :
        /\ Free(c)
        /\ Arrive
        /\ users' = FindOrCreateUser(users, cred)
        /\ LET r == Request("rejectPlace", ReqUser(cred), placeId, 0, Null)
               gate == AdminGate(users, cred)
           IN IF gate # 0
              THEN resp' = Denied(r, gate) /\ UNCHANGED <<reviews, h>>
              ELSE IF placeId = NotUuid
              THEN resp' = Response(r, 500, Null, <<>>) /\ UNCHANGED <<reviews, h>>
              ELSE /\ reviews' = DeleteReviewsOf(reviews, placeId)
                   /\ h' = [h EXCEPT ![c] = [r EXCEPT !.pc = "deletePlace"]]
                   /\ UNCHANGED resp
        /\ UNCHANGED <<places, submissions, ids>>

\* storage.rejectPlace, statement 2: DELETE FROM places ... RETURNING. The
\* submissions of the place go with it (ON DELETE CASCADE); a review that still
\* references the place (reviews.place_id has no cascade) makes it fail.
RejectPlace_deletePlace(c) ==
    /\ h[c].op = "rejectPlace" /\ h[c].pc = "deletePlace"
    /\ LET r == h[c]
           hit == {p \in places : p.id = r.placeId}
       IN IF hit # {} /\ \E v \in reviews : v.placeId = r.placeId
          THEN /\ resp' = Response(r, 500, Null, <<>>)
               /\ UNCHANGED <<places, submissions>>
          ELSE /\ places' = places \ hit
               /\ submissions' = CascadeSubmissions(submissions, r.placeId)
               /\ resp' = Response(r, IF hit # {} THEN 200 ELSE 404, Null, RowsOf(hit))
    /\ h' = [h EXCEPT ![c] = Idle]
    /\ UNCHANGED <<reviews, ids, nreq, serial, pre, users>>

\* Request bodies of POST /api/places/:id/images.
ImageBodies == {EmptyBody, [imageUrl |-> NotUrl], [imageUrl |-> UrlA], [imageUrl |-> UrlC]}

\* The checks POST /api/places/:id/images makes on req.body.imageUrl before it
\* touches the datastore: the message of the 400, Null if it passes.
ImageUrlError(body) ==
    IF "imageUrl" \notin DOMAIN body THEN "imageUrl is required"
    ELSE IF ~IsUrl(body.imageUrl) THEN "Invalid image URL."
    ELSE IF Hostname(body.imageUrl) # "res.cloudinary.com"
         THEN "Images must be uploaded via the app's upload tool."
    ELSE Null

\* Requests to POST /api/places/:id/images: an accepted URL for every place id,
\* and three bodies that fail.
ImageRequests ==
    { <<user, placeId, body>> \in Submitters \X PlaceIds \X ImageBodies :
        ImageUrlError(body) = Null \/ (Refusable /\ placeId = 1) }
        \cup (IF Refusable THEN {<<"user2", NotUuid, [imageUrl |-> UrlA]>>} ELSE {})

\* POST /api/places/:id/images up to the await of submitPlaceImage: the checks
\* of the URL and storage.getPlace (its SELECT of the place; the SELECT of the
\* reviews that follows reads nothing the handler uses).
SubmitImage_getPlace(c) ==
    \E <<user, placeId, body>> \in ImageRequests :
        /\ Free(c)
        /\ Accept
        /\ LET r == Request("submitImage", user, placeId, 0, Null)
               err == ImageUrlError(body)
           IN IF err # Null
              THEN resp' = Response(r, 400, err, <<>>) /\ UNCHANGED h
              ELSE IF placeId = NotUuid
              THEN resp' = Response(r, 500, Null, <<>>) /\ UNCHANGED h
              ELSE IF ~PlaceExists(placeId)
              THEN resp' = Response(r, 404, Null, <<>>) /\ UNCHANGED h
              ELSE /\ h' = [h EXCEPT ![c] = [r EXCEPT !.pc = "insert", !.arg = body.imageUrl]]
                   /\ UNCHANGED resp
        /\ UNCHANGED <<places, reviews, submissions, ids>>

\* storage.submitPlaceImage called by the route: the INSERT, then the 201.
SubmitImage_insert(c) ==
    /\ h[c].op = "submitImage" /\ h[c].pc = "insert"
    /\ LET r == h[c]
           row == SubmissionRow(nextSubId, r.placeId, r.user, r.arg)
       IN IF PlaceExists(r.placeId)
          THEN /\ nextSubId <= MaxSubs
               /\ submissions' = submissions \cup {row}
               /\ nextSubId' = nextSubId + 1
               /\ resp' = Response(r, 201, Null, <<row>>)
          ELSE /\ resp' = Response(r, 500, Null, <<>>)
               /\ UNCHANGED <<submissions, nextSubId>>
    /\ h' = [h EXCEPT ![c] = Idle]
    /\ UNCHANGED <<places, reviews, nextPlaceId, nextReviewId, nreq, serial, pre, users>>

\* The SET clause of approveImageSubmission's first UPDATE.
ApprovedSubmission(s, adminId) ==
    [s EXCEPT !.approved = TRUE, !.approvedBy = adminId, !.approvedAt = Now]

\* The scan run from the third slot down.
FreeSlotLast(p) ==
    IF p.imageUrl3 = Null THEN "imageUrl3"
    ELSE IF p.imageUrl2 = Null THEN "imageUrl2"
    ELSE IF p.imageUrl1 = Null THEN "imageUrl1"
    ELSE Null

\* The scan whose last branch is an else: a full place loses its third image.
FreeSlotOverwrite(p) ==
    IF p.imageUrl1 = Null THEN "imageUrl1"
    ELSE IF p.imageUrl2 = Null THEN "imageUrl2"
    ELSE "imageUrl3"

\* The slot approveImageSubmission picks: the first of imageUrl1, imageUrl2,
\* imageUrl3 that is empty, Null when the three are taken.
FreeSlot(p) ==
    IF p.imageUrl1 = Null THEN "imageUrl1"
    ELSE IF p.imageUrl2 = Null THEN "imageUrl2"
    ELSE IF p.imageUrl3 = Null THEN "imageUrl3"
    ELSE Null

\* storage.approveImageSubmission, statement 1: UPDATE the submission.
ApproveImage_update(c) ==
    \E <<cred, subId>> \in AdminImageRequests :
        /\ Free(c)
        /\ Arrive
        /\ users' = FindOrCreateUser(users, cred)
        /\ LET r == Request("approveImage", ReqUser(cred), 0, subId, Null)
               gate == AdminGate(users, cred)
               hit == {s \in submissions : s.id = subId}
               new == {ApprovedSubmission(s, ReqUser(cred)) : s \in hit}
           IN IF gate # 0
              THEN resp' = Denied(r, gate) /\ UNCHANGED <<submissions, h>>
              ELSE IF subId = NotUuid
              THEN resp' = Response(r, 500, Null, <<>>) /\ UNCHANGED <<submissions, h>>
              ELSE /\ submissions' = (submissions \ hit) \cup new
                   /\ IF hit = {}
                      THEN resp' = Response(r, 404, Null, <<>>) /\ UNCHANGED h
                      ELSE /\ h' = [h EXCEPT ![c] = [r EXCEPT !.pc = "selectPlace", !.ret = RowsOf(new)]]
                           /\ UNCHANGED resp
        /\ UNCHANGED <<places, reviews, ids>>

\* storage.approveImageSubmission, statement 2: SELECT the parent place and
\* pick the slot; with no place or no free slot the method returns at once.
ApproveImage_selectPlace(c) ==
    /\ h[c].op = "approveImage" /\ h[c].pc = "selectPlace"
    /\ LET r == h[c]
           rows == RowsOf({p \in places : p.id = r.ret[1].placeId})
       IN IF rows = <<>> \/ FreeSlot(rows[1]) = Null
          THEN /\ resp' = Response(r, 200, Null, r.ret)
               /\ h' = [h EXCEPT ![c] = Idle]
          ELSE /\ h' = [h EXCEPT ![c] = [r EXCEPT !.pc = "setSlot", !.rows = rows,
                                                 !.arg = FreeSlot(rows[1])]]
               /\ UNCHANGED resp
    /\ UNCHANGED <<places, reviews, submissions, ids, nreq, serial, pre, users>>

\* storage.approveImageSubmission, statement 3: UPDATE places SET the slot.
ApproveImage_setSlot(c) ==
    /\ h[c].op = "approveImage" /\ h[c].pc = "setSlot"
    /\ LET r == h[c]
           hit == {p \in places : p.id = r.rows[1].id}
       IN /\ places' = (places \ hit) \cup {[p EXCEPT ![r.arg] = r.ret[1].imageUrl] : p \in hit}
          /\ resp' = Response(r, 200, Null, r.ret)
    /\ h' = [h EXCEPT ![c] = Idle]
    /\ UNCHANGED <<reviews, submissions, ids, nreq, serial, pre, users>>

\* storage.rejectImageSubmission: one DELETE ... RETURNING.
RejectImage ==
    \E <<cred, subId>> \in AdminImageRequests :
        /\ Arrive
        /\ users' = FindOrCreateUser(users, cred)
        /\ LET r == Request("rejectImage", ReqUser(cred), 0, subId, Null)
               gate == AdminGate(users, cred)
               hit == {s \in submissions : s.id = subId}
           IN IF gate # 0
              THEN resp' = Denied(r, gate) /\ UNCHANGED submissions
              ELSE IF subId = NotUuid
              THEN resp' = Response(r, 500, Null, <<>>) /\ UNCHANGED submissions
              ELSE /\ submissions' = submissions \ hit
                   /\ resp' = Response(r, IF hit # {} THEN 200 ELSE 404, Null, RowsOf(hit))
        /\ UNCHANGED <<places, reviews, ids, h>>

\* ------------------------------------------------------------------ reads
\* created_at defaults to now() at the INSERT; the rows of a table are numbered
\* in the order of their INSERTs, so the number of a row stands for its
\* created_at.
createdAt(row) == row.id

\* The rows of S by created_at, newest first: ORDER BY created_at DESC.
OrderByCreatedAtDesc(S) ==
    LET before == [r \in S |-> Cardinality({x \in S : createdAt(x) > createdAt(r)})]
    IN [i \in 1..Cardinality(S) |-> CHOOSE r \in S : before[r] = i - 1]

\* LIMIT n
Limit(rows, n) == SubSeq(rows, 1, IF Len(rows) < n THEN Len(rows) ELSE n)

\* The arrays a SELECT without ORDER BY may return for the rows S: the order
\* is the database's choice.
AnyOrder(S) ==
    {q \in [1..Cardinality(S) -> S] : \A i, j \in 1..Cardinality(S) : q[i] = q[j] => i = j}

\* 2^k modulo c.
RECURSIVE PowMod2(_, _)
PowMod2(k, c) == IF k = 0 THEN 1 % c ELSE (2 * PowMod2(k - 1, c)) % c

\* total / count in IEEE double arithmetic, for 1 <= total / count < 8: TRUE
\* when the double the division yields is below the exact quotient. With
\* 2^e <= total / count < 2^(e+1) the double is the multiple of 2^(e-52)
\* nearest to the quotient, so it is below when the remainder of
\* total * 2^(52-e) by count is positive and less than count / 2.
QuotientBelow(total, count) ==
    LET e == IF total < 2 * count THEN 0 ELSE IF total < 4 * count THEN 1 ELSE 2
        rem == ((total % count) * PowMod2(52 - e, count)) % count
    IN rem # 0 /\ 2 * rem < count

\* Number(avg.toFixed(1)) for avg = total / count, in tenths; 0 for no
\* review. toFixed(1) takes the n with n / 10 nearest to the double avg, the
\* larger n when two are as near: the exact quotient rounded half up, except
\* that a quotient that ends in 5 hundredths and whose double lies below it
\* goes down.
averageRating(total, count) ==
    IF count = 0 THEN 0
    ELSE LET halfUp == (20 * total + count) \div (2 * count)
             tie == (20 * total) % (2 * count) = count
         IN IF tie /\ QuotientBelow(total, count) THEN halfUp - 1 ELSE halfUp

\* placeReviews.reduce((sum, r) => sum + r.rating, 0)
RECURSIVE totalRating(_)
totalRating(placeReviews) ==
    IF placeReviews = <<>> THEN 0
    ELSE Head(placeReviews).rating + totalRating(Tail(placeReviews))

\* buildPlaceWithReviews, given the array its SELECT of the reviews returned.
buildPlaceWithReviews(place, placeReviews, includeReviews) ==
    [reviews |-> IF includeReviews THEN placeReviews ELSE <<>>,
     reviewCount |-> Len(placeReviews),
     averageRating |-> averageRating(totalRating(placeReviews), Len(placeReviews))] @@ place

\* The grouping that forgets the key: every review counts for every place.
RevStatsAnyPlace(allReviews, placeId) ==
    IF allReviews = <<>> THEN [count |-> 0, total |-> 0]
    ELSE [count |-> Len(allReviews), total |-> totalRating(allReviews)]

\* reviewMap.get(placeId) || { count: 0, total: 0 } after the loop over
\* allReviews.
RECURSIVE RevStats(_, _)
RevStats(allReviews, placeId) ==
    IF allReviews = <<>> THEN [count |-> 0, total |-> 0]
    ELSE LET current == RevStats(Tail(allReviews), placeId)
             r == Head(allReviews)
         IN IF r.placeId = placeId
            THEN [count |-> current.count + 1, total |-> current.total + r.rating]
            ELSE current

\* buildPlacesBulk, reading the reviews table R.
buildPlacesBulk(placesList, R, shrinkPayload) ==
    LET placeIds == {placesList[i].id : i \in 1..Len(placesList)}
        allReviews == RowsOf({r \in R : r.placeId \in placeIds})
    IN [i \in 1..Len(placesList) |->
          LET place == placesList[i]
              revStats == RevStats(allReviews, place.id)
          IN [reviews |-> <<>>,
              reviewCount |-> revStats.count,
              averageRating |-> averageRating(revStats.total, revStats.count)]
             @@ [place EXCEPT !.imageUrl2 = IF shrinkPayload THEN Null ELSE @,
                              !.imageUrl3 = IF shrinkPayload THEN Null ELSE @]]

\* The SELECT without its WHERE.
AnyPlaces(P) == P

\* WHERE approved = true
ApprovedPlaces(P) == {p \in P : p.approved}

\* WHERE approved = false
PendingPlaces(P) == {p \in P : ~p.approved}

\* storage.getPlaces, answered by GET /api/places.
getPlaces ==
    buildPlacesBulk(Limit(OrderByCreatedAtDesc(ApprovedPlaces(places)), ListLimit),
                    reviews, TRUE)

GetPlaces ==
    /\ LastRequest
    /\ Accept
    /\ resp' = Response(Request("getPlaces", Null, 0, 0, Null), 200, Null, getPlaces)
    /\ UNCHANGED <<places, reviews, submissions, ids, h>>

\* GET /api/places/:id: storage.getPlace, its SELECT of the place, then the
\* SELECT of the reviews in buildPlaceWithReviews, which has no ORDER BY.
GetPlace ==
    \E placeId \in PlaceIds \cup {NotUuid} :
        /\ LastRequest
        /\ Accept
        /\ LET r == Request("getPlace", Null, placeId, 0, Null)
               rows == RowsOf({p \in places : p.id = placeId})
           IN IF placeId = NotUuid
              THEN resp' = Response(r, 500, Null, <<>>)
              ELSE IF rows = <<>>
              THEN resp' = Response(r, 404, Null, <<>>)
              ELSE \E placeReviews \in AnyOrder({v \in reviews : v.placeId = placeId}) :
                      resp' = Response(r, 200, Null,
                                       <<buildPlaceWithReviews(rows[1], placeReviews, TRUE)>>)
        /\ UNCHANGED <<places, reviews, submissions, ids, h>>

\* Credentials of the requests to the admin list routes.
AdminListCredentials == IF Refusable THEN Credentials ELSE {"Bearer admin1"}

\* GET /api/admin/places: storage.getPlacesForAdmin.
GetPlacesForAdmin ==
    \E cred \in AdminListCredentials :
        /\ LastRequest
        /\ Arrive
        /\ users' = FindOrCreateUser(users, cred)
        /\ LET r == Request("getPlacesForAdmin", ReqUser(cred), 0, 0, Null)
               gate == AdminGate(users, cred)
           IN IF gate # 0
              THEN resp' = Denied(r, gate)
              ELSE resp' = Response(r, 200, Null,
                               buildPlacesBulk(OrderByCreatedAtDesc(places),
                                               reviews, FALSE))
        /\ UNCHANGED <<places, reviews, submissions, ids, h>>

\* GET /api/admin/places/pending: storage.getPendingPlaces.
GetPendingPlaces ==
    \E cred \in AdminListCredentials :
        /\ LastRequest
        /\ Arrive
        /\ users' = FindOrCreateUser(users, cred)
        /\ LET r == Request("getPendingPlaces", ReqUser(cred), 0, 0, Null)
               gate == AdminGate(users, cred)
           IN IF gate # 0
              THEN resp' = Denied(r, gate)
              ELSE resp' = Response(r, 200, Null,
                               buildPlacesBulk(
                                   OrderByCreatedAtDesc(PendingPlaces(places)),
                                   reviews, FALSE))
        /\ UNCHANGED <<places, reviews, submissions, ids, h>>

\* ---------------------------------------------------------------- nearby
\* Numbers of degrees are counted in ten-thousandths of a degree, distances
\* in metres; NaN and Infinity are numbers beyond those of any degree or
\* distance.
NaN == 2000000000
Infinity == 1000000000
NearbyLimit == 20                              \* .slice(0, 20)

\* parseFloat on the texts the model uses.
parseFloat(text) ==
    CASE text = "0" -> 0
      [] text = "25.2" -> 252000
      [] text = "55.3" -> 553000
      [] text = "24.5" -> 245000
      [] text = "54.4" -> 544000
      [] text = "60" -> 600000
      [] text = "25.2048" -> 252048
      [] text = "55.2708" -> 552708
      [] text = "24.4539" -> 244539
      [] text = "54.3773" -> 543773
      [] text = "-36.8485" -> -368485
      [] text = "174.7633" -> 1747633
      [] OTHER -> NaN

\* place.latitude || "0": null and the empty string are falsy.
OrZero(text) == IF text = Null \/ text = "" THEN "0" ELSE text

\* The check of the query against UAE_BOUNDS.
OutOfBounds(lat, lng) ==
    \/ lat = NaN \/ lng = NaN
    \/ lat < 220000 \/ lat > 270000
    \/ lng < 510000 \/ lng > 570000

\* R * c of the haversine formula with R = 6371 km, in double arithmetic and
\* rounded to the metre, for the origins and the coordinates the model uses.
Haversine(lat, lng, placeLat, placeLng) ==
    LET k == <<lat, lng, placeLat, placeLng>>
    IN CASE k = <<252000, 553000, 0, 552708>> -> 2802114
         [] k = <<252000, 553000, 0, 543773>> -> 2803867
         [] k = <<252000, 553000, 0, 1747633>> -> 12946066
         [] k = <<252000, 553000, 252048, 0>> -> 5521474
         [] k = <<252000, 553000, 252048, 552708>> -> 2986
         [] k = <<252000, 553000, 252048, 543773>> -> 92834
         [] k = <<252000, 553000, 252048, 1747633>> -> 11429610
         [] k = <<252000, 553000, 244539, 0>> -> 5540087
         [] k = <<252000, 553000, 244539, 552708>> -> 83015
         [] k = <<252000, 553000, 244539, 543773>> -> 124713
         [] k = <<252000, 553000, 244539, 1747633>> -> 11478740
         [] k = <<252000, 553000, -368485, 0>> -> 9004079
         [] k = <<252000, 553000, -368485, 552708>> -> 6899479
         [] k = <<252000, 553000, -368485, 543773>> -> 6900156
         [] k = <<252000, 553000, -368485, 1747633>> -> 14199237
         [] k = <<245000, 544000, 0, 552708>> -> 2725890
         [] k = <<245000, 544000, 0, 543773>> -> 2724277
         [] k = <<245000, 544000, 0, 1747633>> -> 13052623
         [] k = <<245000, 544000, 252048, 0>> -> 5450099
         [] k = <<245000, 544000, 252048, 552708>> -> 117734
         [] k = <<245000, 544000, 252048, 543773>> -> 78404
         [] k = <<245000, 544000, 252048, 1747633>> -> 11548875
         [] k = <<245000, 544000, 244539, 0>> -> 5467105
         [] k = <<245000, 544000, 244539, 552708>> -> 88275
         [] k = <<245000, 544000, 244539, 543773>> -> 5617
         [] k = <<245000, 544000, 244539, 1747633>> -> 11597899
         [] k = <<245000, 544000, -368485, 0>> -> 8885592
         [] k = <<245000, 544000, -368485, 552708>> -> 6822252
         [] k = <<245000, 544000, -368485, 543773>> -> 6821642
         [] k = <<245000, 544000, -368485, 1747633>> -> 14241916

\* placeLat === 0 && placeLng === 0
BothZero(placeLat, placeLng) == placeLat = 0 /\ placeLng = 0

\* The distance the map callback gives a place.
Distance(place, lat, lng) ==
    LET placeLat == parseFloat(OrZero(place.latitude))
        placeLng == parseFloat(OrZero(place.longitude))
    IN IF BothZero(placeLat, placeLng) THEN Infinity
       ELSE Haversine(lat, lng, placeLat, placeLng)

\* .sort((a, b) => a.distance - b.distance): the sort is stable, and the
\* difference of two Infinity is NaN, which sort takes for equal.
SortByDistance(list) ==
    LET before == [i \in 1..Len(list) |->
                     Cardinality({j \in 1..Len(list) :
                         \/ list[j].distance < list[i].distance
                         \/ list[j].distance = list[i].distance /\ j < i})]
    IN [n \in 1..Len(list) |-> list[CHOOSE i \in 1..Len(list) : before[i] = n - 1]]

\* Query strings of GET /api/places/nearby: two origins in the bounds, one
\* outside them and two that are refused.
NearbyQueries ==
    {<<"25.2", "55.3">>, <<"24.5", "54.4">>, <<"0", "0">>, <<"25.2", "60">>, <<"abc", "55.3">>}

\* GET /api/places/nearby
GetNearby ==
    \E q \in NearbyQueries :
        /\ LastRequest
        /\ Accept
        /\ LET r == Request("getNearby", Null, 0, 0, Null)
               lat == parseFloat(q[1])
               lng == parseFloat(q[2])
               placesList == getPlaces
               placesWithDistance ==
                   [i \in 1..Len(placesList) |->
                       [distance |-> Distance(placesList[i], lat, lng)] @@ placesList[i]]
           IN IF OutOfBounds(lat, lng)
              THEN resp' = Response(r, 400, Null, <<>>)
              ELSE resp' = Response(r, 200, Null,
                               Limit(SortByDistance(placesWithDistance), NearbyLimit))
        /\ UNCHANGED <<places, reviews, submissions, ids, h>>

\* today.setHours(0, 0, 0, 0) for the new Date() of a getAdminStats call:
\* the call comes on the day of the approvals so far, whose approvedAt is
\* Now, or on a later day.
MidnightBeforeNow == "midnight before now"
MidnightAfterNow == "midnight after now"
Midnights == {MidnightBeforeNow, MidnightAfterNow}

\* approved_at >= today; no row for a null approved_at.
SinceMidnight(approvedAt, today) == approvedAt = Now /\ today = MidnightBeforeNow

\* The count of the submissions without its WHERE approved = false.
getAdminStatsAllImages(P, S, today) ==
    [totalPlaces |-> Cardinality(P),
     approvedPlaces |-> Cardinality({p \in P : p.approved}),
     pendingPlaces |-> Cardinality({p \in P : ~p.approved}),
     approvedToday |->
         Cardinality({p \in P : p.approved /\ SinceMidnight(p.approvedAt, today)}),
     pendingImages |-> Cardinality(S)]

\* storage.getAdminStats on the places P and the image submissions S: its
\* five SELECT count(*), with no write between them.
getAdminStats(P, S, today) ==
    [totalPlaces |-> Cardinality(P),
     approvedPlaces |-> Cardinality({p \in P : p.approved}),
     pendingPlaces |-> Cardinality({p \in P : ~p.approved}),
     approvedToday |->
         Cardinality({p \in P : p.approved /\ SinceMidnight(p.approvedAt, today)}),
     pendingImages |-> Cardinality({t \in S : ~t.approved})]

\* GET /api/admin/stats
GetAdminStats ==
    \E cred \in AdminListCredentials, today \in Midnights :
        /\ LastRequest
        /\ Arrive
        /\ users' = FindOrCreateUser(users, cred)
        /\ LET r == Request("getAdminStats", ReqUser(cred), 0, 0, Null)
               gate == AdminGate(users, cred)
           IN IF gate # 0
              THEN resp' = Denied(r, gate)
              ELSE resp' = Response(r, 200, Null,
                                    <<getAdminStats(places, submissions, today)>>)
        /\ UNCHANGED <<places, reviews, submissions, ids, h>>

Step(c) ==
    \/ CreateReview_check(c)
    \/ CreateReview_insert(c)
    \/ ApprovePlace_select(c)
    \/ ApprovePlace_update(c)
    \/ ApprovePlace_route(c)
    \/ RejectPlace_deleteReviews(c)
    \/ RejectPlace_deletePlace(c)
    \/ SubmitImage_getPlace(c)
    \/ SubmitImage_insert(c)
    \/ ApproveImage_update(c)
    \/ ApproveImage_selectPlace(c)
    \/ ApproveImage_setSlot(c)

Next ==
    \/ CreatePlace
    \/ RejectImage
    \/ \E c \in Handlers : Step(c)

Spec == Init /\ [][Next]_vars

\* The routes that list places.
ListNext ==
    \/ GetPlaces
    \/ GetPlacesForAdmin
    \/ GetPendingPlaces

\* The same handlers with the requests handled one at a time, and the routes
\* that read: handled one at a time, the SELECTs of a read see one state of
\* the tables.
SeqNext ==
    \/ Next
    \/ ListNext
    \/ GetPlace
    \/ GetAdminStats

SeqSpec == SeqInit /\ [][SeqNext]_vars

\* Tables as earlier requests can have left them, larger than Spec and
\* SeqSpec build them: place i of n places, pending when i is a multiple of 8
\* and approved otherwise,
ListedPlace(i) ==
    IF i % 8 = 0
    THEN PlaceRow([name |-> "Al Safa", location |-> "Dubai", createdBy |-> "user1"], i)
    ELSE ApprovedRow(PlaceRow([name |-> "Al Safa", location |-> "Dubai",
                               createdBy |-> "user1"], i), "admin1")

\* or, for place 1 of two places, n[k] reviews of rating k, each by a user of
\* its own: the rating of review i,
RatingAt(i, n) ==
    CHOOSE k \in 1..5 :
        LET upto == [j \in 0..5 |-> IF j = 0 THEN 0
                                    ELSE IF j = 1 THEN n[1]
                                    ELSE IF j = 2 THEN n[1] + n[2]
                                    ELSE IF j = 3 THEN n[1] + n[2] + n[3]
                                    ELSE IF j = 4 THEN n[1] + n[2] + n[3] + n[4]
                                    ELSE n[1] + n[2] + n[3] + n[4] + n[5]]
        IN upto[k - 1] < i /\ i <= upto[k]

\* and the rows of the reviews table.
ListedReviews(n) ==
    {[id |-> i, placeId |-> 1, userId |-> ToString(i), rating |-> RatingAt(i, n)] :
        i \in 1..(n[1] + n[2] + n[3] + n[4] + n[5])}

\* The list routes answering one request on such tables.
ListInit ==
    /\ submissions = {}
    /\ nextSubId = 1
    /\ h = [c \in Handlers |-> Idle]
    /\ resp = NoResponse
    /\ nreq = MaxRequests - 1
    /\ serial = FALSE
    /\ pre = [places |-> {}, reviews |-> {}, submissions |-> {}]
    /\ users = KnownUsers
    /\ \/ \E n \in 0..MaxListedPlaces :
             /\ places = {ListedPlace(i) : i \in 1..n}
             /\ nextPlaceId = n + 1
             /\ reviews = {}
             /\ nextReviewId = 1
       \/ \E n1 \in 0..MaxListedReviews :
             \E n2 \in 0..(MaxListedReviews - n1) :
               \E n3 \in 0..(MaxListedReviews - n1 - n2) :
                 \E n4 \in 0..(MaxListedReviews - n1 - n2 - n3) :
                   \E n5 \in 0..(MaxListedReviews - n1 - n2 - n3 - n4) :
                     /\ n1 + n2 + n3 + n4 + n5 > 0
                     /\ places = {ListedPlace(1), ListedPlace(2)}
                     /\ nextPlaceId = 3
                     /\ reviews = ListedReviews(<<n1, n2, n3, n4, n5>>)
                     /\ nextReviewId = n1 + n2 + n3 + n4 + n5 + 1

ListSpec == ListInit /\ [][ListNext]_vars

\* The texts of the latitude and the longitude of a place: none, zero, two
\* places in the Emirates, one coordinate of the two missing, and a place far
\* away.
Coordinates ==
    << <<Null, Null>>, <<"0", "0">>, <<"25.2048", "55.2708">>, <<"24.4539", "54.3773">>,
       <<"25.2048", Null>>, <<"", "54.3773">>, <<"-36.8485", "174.7633">> >>

\* Place i of a table whose coordinates come in the order k: pending when i
\* is a multiple of 5.
NearPlace(i, k) ==
    LET at == Coordinates[((i * k) % Len(Coordinates)) + 1]
        values == [name |-> "Al Safa", location |-> "Dubai", createdBy |-> "user1",
                   latitude |-> at[1], longitude |-> at[2]]
    IN IF i % 5 = 0 THEN PlaceRow(values, i) ELSE ApprovedRow(PlaceRow(values, i), "admin1")

\* The nearby route answering one request on a table of such places.
NearInit ==
    /\ reviews = {}
    /\ submissions = {}
    /\ nextReviewId = 1
    /\ nextSubId = 1
    /\ h = [c \in Handlers |-> Idle]
    /\ resp = NoResponse
    /\ nreq = MaxRequests - 1
    /\ serial = FALSE
    /\ pre = [places |-> {}, reviews |-> {}, submissions |-> {}]
    /\ users = KnownUsers
    /\ \E n \in 0..MaxNearPlaces, k \in 1..(Len(Coordinates) - 1) :
          /\ places = {NearPlace(i, k) : i \in 1..n}
          /\ nextPlaceId = n + 1

NearNext == GetNearby

NearSpec == NearInit /\ [][NearNext]_vars

\* ------------------------------------------------------------------ seeding
SeedUser == "system_seed_user"

\* The three places of the seed, in the order of their INSERTs.
SeedPlaces ==
    << [name |-> "Al Hallab - Dubai Mall", location |-> "Dubai Mall, Downtown Dubai",
        createdBy |-> SeedUser],
       [name |-> "Seven Sands", location |-> "The Beach, JBR, Dubai", createdBy |-> SeedUser],
       [name |-> "Tent Jumeirah Restaurant", location |-> "Umm Suqeim, Jumeirah, Dubai",
        createdBy |-> SeedUser] >>

\* createApp reaches the seed step: storage.getPlaces() is called, the 10 s
\* timer is set, and the call awaits the race of the two.
Seed_start(c) ==
    /\ Free(c)
    /\ nreq < MaxStartups
    /\ nreq' = nreq + 1
    /\ h' = [h EXCEPT ![c] = [Request("seed", SeedUser, 0, 0, Null) EXCEPT !.pc = "race"]]
    /\ UNCHANGED <<places, reviews, submissions, ids, resp, serial, pre, users>>

\* The timer fires before getPlaces has answered: the race rejects, the catch
\* logs the error and createApp goes on without seeding.
Seed_timeout(c) ==
    /\ h[c].op = "seed" /\ h[c].pc = "race"
    /\ h' = [h EXCEPT ![c] = Idle]
    /\ UNCHANGED <<places, reviews, submissions, ids, resp, nreq, serial, pre, users>>

\* getPlaces answers first: the seed goes on if placesData.length === 0.
Seed_getPlaces(c) ==
    /\ h[c].op = "seed" /\ h[c].pc = "race"
    /\ h' = [h EXCEPT ![c] = IF Len(getPlaces) = 0 THEN [h[c] EXCEPT !.pc = "dubaiMall"]
                                                   ELSE Idle]
    /\ UNCHANGED <<places, reviews, submissions, ids, resp, nreq, serial, pre, users>>

\* The pc after the INSERT of seed place i.
AfterSeedPlace(i) == IF i = 1 THEN "review" ELSE IF i = 2 THEN "tent" ELSE "idle"

\* storage.createPlace of the seed: dubaiMall, then (after the review) Seven
\* Sands and Tent Jumeirah, one INSERT each.
Seed_createPlace(c) ==
    /\ h[c].op = "seed" /\ h[c].pc \in {"dubaiMall", "sevenSands", "tent"}
    /\ LET i == IF h[c].pc = "dubaiMall" THEN 1 ELSE IF h[c].pc = "sevenSands" THEN 2 ELSE 3
           row == PlaceRow(SeedPlaces[i], nextPlaceId)
       IN /\ places' = places \cup {row}
          /\ nextPlaceId' = nextPlaceId + 1
          /\ h' = [h EXCEPT ![c] = IF i = 3 THEN Idle
                                   ELSE [h[c] EXCEPT !.pc = AfterSeedPlace(i),
                                                     !.rows = IF i = 1 THEN <<row>> ELSE @]]
    /\ UNCHANGED <<reviews, submissions, nextReviewId, nextSubId, resp, nreq, serial, pre, users>>

\* storage.createReview of the seed, for dubaiMall.id; an INSERT the foreign
\* key refuses throws into the catch and ends the seed.
Seed_createReview(c) ==
    /\ h[c].op = "seed" /\ h[c].pc = "review"
    /\ LET row == [id |-> nextReviewId, placeId |-> h[c].rows[1].id, userId |-> SeedUser,
                   rating |-> 5]
       IN IF ReviewInsertAllowed(row)
          THEN /\ reviews' = reviews \cup {row}
               /\ nextReviewId' = nextReviewId + 1
               /\ h' = [h EXCEPT ![c] = [h[c] EXCEPT !.pc = "sevenSands"]]
          ELSE /\ h' = [h EXCEPT ![c] = Idle]
               /\ UNCHANGED <<reviews, nextReviewId>>
    /\ UNCHANGED <<places, submissions, nextPlaceId, nextSubId, resp, nreq, serial, pre, users>>

\* The places table a createApp call may find: empty, one place a user
\* posted that is still pending, or one place an admin has approved.
SeedTables ==
    LET posted == PlaceRow([name |-> "Al Safa", location |-> "Dubai", createdBy |-> "user1"], 1)
    IN { {}, {posted}, {ApprovedRow(posted, "admin1")} }

\* createApp called up to MaxStartups times, the calls overlapping or not, as
\* the serverless entry point api/index.ts does on every invocation.
SeedInit ==
    /\ reviews = {}
    /\ submissions = {}
    /\ nextReviewId = 1
    /\ nextSubId = 1
    /\ h = [c \in Handlers |-> Idle]
    /\ resp = NoResponse
    /\ nreq = 0
    /\ serial = FALSE
    /\ pre = [places |-> {}, reviews |-> {}, submissions |-> {}]
    /\ users = KnownUsers
    /\ \E T \in SeedTables :
          /\ places = T
          /\ nextPlaceId = Cardinality(T) + 1

SeedNext ==
    \E c \in Handlers :
        \/ Seed_start(c)
        \/ Seed_timeout(c)
        \/ Seed_getPlaces(c)
        \/ Seed_createPlace(c)
        \/ Seed_createReview(c)

SeedSpec == SeedInit /\ [][SeedNext]_vars

\* ------------------------------------------------------------------ claims
PlaceAt(T, id) == {p \in T : p.id = id}
SlotsOf(p) == <<p.imageUrl1, p.imageUrl2, p.imageUrl3>>

\* C1: in every reachable state a place row is approved if and only if its
\* approvedBy and its approvedAt are both non-null.
C1_ApprovedIffApprover ==
    \A p \in places : p.approved <=> (p.approvedBy # Null /\ p.approvedAt # Null)

\* An approved place next to a pending one, with an approved submission.
C1_Witness ==
    /\ \E p \in places : p.approved /\ p.approvedBy = "admin1"
    /\ \E p \in places : ~p.approved
    /\ \E s \in submissions : s.approved

\* C2: when approvePlace(placeId, adminId) has completed on a place that
\* existed, the request is answered 200 and the place is approved, approved by
\* adminId, with its three image slots null, whatever they held before.
C2_ApproveClearsSlots ==
    (Quiet /\ resp.op = "approvePlace" /\ PlaceAt(pre.places, resp.placeId) # {}) =>
        /\ resp.status = 200
        /\ \E p \in places :
              /\ p.id = resp.placeId
              /\ p.approved
              /\ p.approvedBy = resp.user
              /\ SlotsOf(p) = <<Null, Null, Null>>

\* approvePlace has completed on a place whose three slots were filled.
C2_Witness ==
    /\ Quiet /\ resp.op = "approvePlace" /\ resp.status = 200
    /\ \E p \in pre.places :
          /\ p.id = resp.placeId
          /\ p.imageUrl1 # Null /\ p.imageUrl2 # Null /\ p.imageUrl3 # Null

\* C3: a place comes into being pending, with approvedBy and approvedAt null,
\* under an id never used before; it becomes approved only in approvePlace's
\* UPDATE, it disappears only in rejectPlace's DELETE, and an approved place
\* that is still there is still approved.
C3_Step ==
    \A id \in PlaceIds :
        LET before == PlaceAt(places, id)
            after == PlaceAt(places', id)
        IN /\ (before = {} /\ after # {}) =>
                /\ id = nextPlaceId
                /\ resp'.op = "createPlace" /\ resp'.status = 201
                /\ \A q \in after :
                      ~q.approved /\ q.approvedBy = Null /\ q.approvedAt = Null
           /\ (before # {} /\ after = {}) =>
                \E c \in Handlers :
                    /\ h[c].op = "rejectPlace" /\ h[c].placeId = id
                    /\ h'[c] = Idle
           /\ \A p \in before, q \in after :
                /\ p.approved => q.approved
                /\ (~p.approved /\ q.approved) =>
                     \E c \in Handlers :
                         /\ h[c].op = "approvePlace" /\ h[c].pc = "update"
                         /\ h[c].placeId = id

\* C3, over every step: places start pending and never leave approved except by deletion.
C3_Lifecycle == [][C3_Step]_vars

\* A place created from a body that carried the approval fields is pending,
\* beside a place that was approved.
C3_Witness ==
    /\ resp.op = "createPlace" /\ resp.status = 201
    /\ \E q \in places : q.id = resp.ret[1].id /\ ~q.approved
    /\ \E p \in places : p.approved
    /\ nextPlaceId > MaxPlaces

\* C4: approvePlace on a pending place with k non-null slots adds exactly k
\* submission rows and removes none; the new rows are for that place, one per
\* captured URL, submitted by the place's creator, not approved, with
\* approvedBy and approvedAt null.
C4_RerouteImages ==
    (Quiet /\ resp.op = "approvePlace") =>
        \A p \in PlaceAt(pre.places, resp.placeId) :
            ~p.approved =>
                LET new == submissions \ pre.submissions
                IN /\ pre.submissions \subseteq submissions
                   /\ Cardinality(new) = Cardinality({i \in 1..3 : SlotsOf(p)[i] # Null})
                   /\ \A u \in Urls :
                         Cardinality({s \in new : s.imageUrl = u})
                             = Cardinality({i \in 1..3 : SlotsOf(p)[i] = u})
                   /\ \A s \in new :
                         /\ s.placeId = p.id
                         /\ s.submittedBy = p.createdBy
                         /\ s.submittedBy # resp.user
                         /\ ~s.approved /\ s.approvedBy = Null /\ s.approvedAt = Null

\* approvePlace has completed on a pending place whose three slots were filled.
C4_Witness ==
    /\ Quiet /\ resp.op = "approvePlace" /\ resp.status = 200
    /\ \E p \in PlaceAt(pre.places, resp.placeId) :
          ~p.approved /\ \A i \in 1..3 : SlotsOf(p)[i] # Null
    /\ Cardinality(submissions \ pre.submissions) = 3

\* C5: with the requests handled one at a time, a review request answered 201
\* leaves hasUserReviewedPlace true for its user and place; a request of a
\* user who has a review of the place is answered 409 and leaves the reviews
\* as they were; no two review rows share user and place.
C5_OneReviewPerUser ==
    /\ (Quiet /\ resp.op = "createReview" /\ resp.status = 201) =>
          hasUserReviewedPlace(resp.user, resp.placeId)
    /\ (Quiet /\ resp.op = "createReview"
           /\ \E r \in pre.reviews : r.userId = resp.user /\ r.placeId = resp.placeId) =>
          (resp.status = 409 /\ reviews = pre.reviews)
    /\ \A r1, r2 \in reviews :
          (r1.userId = r2.userId /\ r1.placeId = r2.placeId) => r1 = r2

\* A second attempt has been answered 409, the first review still there.
C5_Witness ==
    /\ Quiet /\ resp.op = "createReview" /\ resp.status = 409
    /\ Cardinality({r \in reviews : r.userId = resp.user /\ r.placeId = resp.placeId}) = 1

\* C6: the INSERT of a review handler that passed the check goes through
\* whatever rows the table holds by then: on a place that exists it adds a row
\* for the handler's user and place and the request is answered 201.
C6_Step ==
    \A c \in Handlers :
        (/\ h[c].op = "createReview" /\ h[c].pc = "insert"
         /\ h'[c] = Idle
         /\ PlaceExists(h[c].placeId)) =>
            /\ resp'.status = 201
            /\ Cardinality(reviews') = Cardinality(reviews) + 1
            /\ \E r \in reviews' \ reviews :
                  r.userId = h[c].user /\ r.placeId = h[c].placeId

\* C6, over every step: no check at the INSERT stops the second of two reviews.
C6_InsertUnchecked == [][C6_Step]_vars

\* Two review rows of one user for one place, the second answered 201.
C6_Witness ==
    /\ resp.op = "createReview" /\ resp.status = 201
    /\ \E r1, r2 \in reviews :
          /\ r1.id # r2.id
          /\ r1.userId = resp.user /\ r2.userId = resp.user
          /\ r1.placeId = resp.placeId /\ r2.placeId = resp.placeId

\* C7: rejectPlace on a place that exists answers 200 (true) and leaves the
\* tables without the place, without its reviews and without its submissions,
\* the other rows untouched; on the id of a place that is not there (as in a
\* second rejectPlace of the same place) it answers 404 (false) and changes
\* nothing.
C7_RejectDeletes ==
    (Quiet /\ resp.op = "rejectPlace" /\ resp.placeId \in PlaceIds) =>
        IF PlaceAt(pre.places, resp.placeId) # {}
        THEN /\ resp.status = 200
             /\ places = pre.places \ PlaceAt(pre.places, resp.placeId)
             /\ reviews = {r \in pre.reviews : r.placeId # resp.placeId}
             /\ submissions = {s \in pre.submissions : s.placeId # resp.placeId}
        ELSE /\ resp.status = 404
             /\ Snapshot = pre

\* rejectPlace has deleted a place that had two reviews.
C7_Witness ==
    /\ Quiet /\ resp.op = "rejectPlace" /\ resp.status = 200
    /\ Cardinality({r \in pre.reviews : r.placeId = resp.placeId}) = 2
    /\ reviews = {}

\* C8: approveImageSubmission on a submission whose place has an empty slot
\* answers 200, marks the submission approved by the admin with approvedAt
\* set, and changes the places table in one field only: the first empty slot
\* of the place, in the order 1, 2, 3, now holds the submission's URL.
C8_FirstEmptySlot ==
    (Quiet /\ resp.op = "approveImage") =>
        \A s \in pre.submissions, p \in pre.places :
            (/\ s.id = resp.subId /\ p.id = s.placeId
             /\ \E i \in 1..3 : SlotsOf(p)[i] = Null) =>
                LET q == IF p.imageUrl1 = Null THEN [p EXCEPT !.imageUrl1 = s.imageUrl]
                         ELSE IF p.imageUrl2 = Null THEN [p EXCEPT !.imageUrl2 = s.imageUrl]
                         ELSE [p EXCEPT !.imageUrl3 = s.imageUrl]
                IN /\ resp.status = 200
                   /\ places = (pre.places \ {p}) \cup {q}
                   /\ \E t \in submissions :
                         /\ t.id = s.id /\ t.approved
                         /\ t.approvedBy = resp.user /\ t.approvedAt # Null
                         /\ submissions = (pre.submissions \ {s}) \cup {t}

\* A submission has been approved into the second slot, the first being taken
\* and the third empty.
C8_Witness ==
    /\ Quiet /\ resp.op = "approveImage" /\ resp.status = 200
    /\ \E p \in pre.places, q \in places :
          /\ p.id = resp.ret[1].placeId /\ q.id = p.id
          /\ p.imageUrl1 # Null /\ p.imageUrl2 = Null /\ p.imageUrl3 = Null
          /\ q.imageUrl2 = resp.ret[1].imageUrl /\ q.imageUrl3 = Null

\* C9: approveImageSubmission on a submission whose place has its three slots
\* taken leaves the places table as it was, answers 200 and returns the
\* submission approved, with the admin as approver and approvedAt set.
C9_FullPlaceUntouched ==
    (Quiet /\ resp.op = "approveImage") =>
        \A s \in pre.submissions, p \in pre.places :
            (/\ s.id = resp.subId /\ p.id = s.placeId
             /\ \A i \in 1..3 : SlotsOf(p)[i] # Null) =>
                /\ resp.status = 200
                /\ places = pre.places
                /\ resp.ret = <<[s EXCEPT !.approved = TRUE, !.approvedBy = resp.user,
                                          !.approvedAt = Now]>>
                /\ resp.ret[1] \in submissions

\* A submission of a place with three images has been approved.
C9_Witness ==
    /\ Quiet /\ resp.op = "approveImage" /\ resp.status = 200
    /\ \E p \in places :
          /\ p.id = resp.ret[1].placeId
          /\ \A i \in 1..3 : SlotsOf(p)[i] # Null
          /\ p \in pre.places

\* C10: in every reachable state of the interleaved handlers every image
\* submission row references a place row that exists.
C10_NoOrphanSubmission ==
    \A s \in submissions : \E p \in places : p.id = s.placeId

\* rejectPlace deleted the place while approvePlace was routing its images: a
\* submission was inserted and is gone, and approvePlace has one more to insert.
C10_Witness ==
    \E c \in Handlers :
        /\ h[c].op = "approvePlace" /\ h[c].pc = "route"
        /\ ~PlaceExists(h[c].placeId)
        /\ nextSubId > 1
        /\ submissions = {}

\* C11: a slot of an approved place is non-null only if it held the same URL
\* in the state before, the place being approved there too, or if this step
\* is the slot UPDATE of approveImageSubmission writing the URL of the
\* submission of that place it has just marked approved by an admin. A place
\* therefore turns approved with its three slots null, and no URL given at
\* creation is in a slot of an approved place unless a submission carrying it
\* was approved.
C11_Step ==
    \A q \in places' :
        q.approved =>
            \A k \in {"imageUrl1", "imageUrl2", "imageUrl3"} :
                q[k] # Null =>
                    \/ \E p \in places : p.id = q.id /\ p.approved /\ p[k] = q[k]
                    \/ \E c \in Handlers :
                          /\ h[c].op = "approveImage" /\ h[c].pc = "setSlot"
                          /\ h'[c] = Idle
                          /\ h[c].arg = k
                          /\ h[c].ret[1].placeId = q.id
                          /\ h[c].ret[1].imageUrl = q[k]
                          /\ h[c].ret[1].approved
                          /\ h[c].ret[1].approvedBy \in Admins

\* C11, over every step: the slots of an approved place are filled by
\* approveImageSubmission only.
C11_SlotsFromApprovedSubmissions == [][C11_Step]_vars

\* An approved place shows a URL it was created with: approvePlace re-routed
\* it as a submission of the creator and an admin approved that submission.
C11_Witness ==
    \E p \in places, s \in submissions :
        /\ p.approved /\ p.imageUrl1 = UrlB
        /\ s.placeId = p.id /\ s.imageUrl = UrlB
        /\ s.submittedBy = p.createdBy /\ s.approved

\* The routes under /api/admin, and the users whose row has the admin flag.
AdminOps ==
    {"approvePlace", "rejectPlace", "approveImage", "rejectImage",
     "getPlacesForAdmin", "getPendingPlaces", "getAdminStats"}
AdminIds(U) == {u.id : u \in {v \in U : v.isAdmin}}
Refused == nreq' = nreq + 1 /\ h' = h /\ resp'.op \in {"isAuthenticated", "isAdmin"}

\* C12 as stated: a request the guards refuse has read and written no table.
C12_NoDatastoreAccess ==
    [][Refused => UNCHANGED <<places, reviews, submissions, users>>]_vars

\* C12, amended: a request to an admin endpoint that the guards answer 401
\* leaves every table as it was, the users table too; one they answer 403
\* comes from a user without the admin flag, leaves places, reviews and image
\* submissions as they were and starts no handler, and the users table gains
\* at most the row of that user (isAuthenticated creates it on first sight);
\* and a handler of an admin endpoint runs only for a user whose row has the
\* admin flag.
C12_Step ==
    /\ Refused =>
          /\ resp'.field \in AdminOps
          /\ UNCHANGED <<places, reviews, submissions, ids>>
          /\ resp'.status = 401 => (users' = users /\ resp'.user = Null)
          /\ resp'.status = 403 =>
                /\ resp'.user \notin AdminIds(users')
                /\ users \subseteq users'
                /\ \A u \in users' \ users : u.id = resp'.user /\ ~u.isAdmin
    /\ nreq' = nreq + 1 =>
          /\ (h' = h /\ resp'.op \in AdminOps) => resp'.user \in AdminIds(users')
          /\ \A c \in Handlers :
                (h'[c] # h[c] /\ h'[c].op \in AdminOps) => h'[c].user \in AdminIds(users')

\* C12, over every step.
C12_AdminGuard == [][C12_Step]_vars

\* Someone who had never signed in asked to approve a pending place: the
\* answer is 403, the place is still pending and the users table has a row
\* for the caller.
C12_Witness ==
    /\ resp.op = "isAdmin" /\ resp.status = 403 /\ resp.field = "approvePlace"
    /\ resp.user = "user3"
    /\ \E u \in users : u.id = "user3"
    /\ \E p \in places : p.id = resp.placeId /\ ~p.approved

\* The submission rows a step inserts, and the two statements that insert.
NewSubmissions == {s \in submissions' : \A t \in submissions : t.id # s.id}
InsertedByRoute(s, c) ==
    /\ h[c].op = "submitImage" /\ h[c].pc = "insert"
    /\ s = SubmissionRow(s.id, h[c].placeId, h[c].user, h[c].arg)
InsertedByApprovePlace(s, c) ==
    /\ h[c].op = "approvePlace" /\ h[c].pc = "route"
    /\ s = SubmissionRow(s.id, h[c].placeId, h[c].rows[1].createdBy, Head(h[c].urls))
    /\ \E i \in 1..3 : SlotsOf(h[c].rows[1])[i] = s.imageUrl

\* C13 as stated: a submission row is inserted by POST /api/places/:id/images
\* for a place that is approved at that moment, or by approvePlace.
C13_OnlyApprovedPlaces ==
    [][\A s \in NewSubmissions : \E c \in Handlers :
          \/ InsertedByRoute(s, c) /\ \E p \in places : p.id = s.placeId /\ p.approved
          \/ InsertedByApprovePlace(s, c)]_vars

\* C13, amended: a submission row is inserted in one of two ways only: by
\* POST /api/places/:id/images for a place that exists at that moment,
\* approved or pending, with the caller as submitter, or by approvePlace for
\* a URL it read from the slots of the place, with the creator as submitter;
\* either way the row is pending.
C13_Step ==
    \A s \in NewSubmissions :
        /\ \E p \in places : p.id = s.placeId
        /\ ~s.approved
        /\ \E c \in Handlers : InsertedByRoute(s, c) \/ InsertedByApprovePlace(s, c)

\* C13, over every step.
C13_SubmissionOrigins == [][C13_Step]_vars

\* A photo a user submitted for a place that has never been approved is in
\* the queue, next to a submission approvePlace made for another place.
C13_Witness ==
    /\ resp.op = "submitImage" /\ resp.status = 201
    /\ \E s \in submissions, p \in places :
          /\ s.id = resp.ret[1].id /\ s.submittedBy = "user2"
          /\ p.id = s.placeId /\ ~p.approved /\ p.approvedAt = Null
    /\ \E s \in submissions, p \in places :
          p.id = s.placeId /\ p.approved /\ s.submittedBy = p.createdBy

\* C14: a review request with a valid body (one not answered 400) for the id
\* of no place is answered 404 and inserts no review row.
C14_MissingPlaceIs404 ==
    (/\ Quiet /\ resp.op = "createReview" /\ resp.status # 400
     /\ resp.placeId \in PlaceIds
     /\ PlaceAt(pre.places, resp.placeId) = {}) =>
        (resp.status = 404 /\ reviews = pre.reviews)

\* C15: approvePlace, rejectPlace, approveImageSubmission and
\* rejectImageSubmission called with an id that matches no row answer 404 (the
\* absence sentinel, nothing thrown) and leave the three tables as they were.
C15_AbsentIdSentinel ==
    /\ (/\ Quiet /\ resp.op \in {"approvePlace", "rejectPlace"}
         /\ PlaceAt(pre.places, resp.placeId) = {}) =>
            (resp.status = 404 /\ Snapshot = pre)
    /\ (/\ Quiet /\ resp.op \in {"approveImage", "rejectImage"}
         /\ \A t \in pre.submissions : t.id # resp.subId) =>
            (resp.status = 404 /\ Snapshot = pre)

\* C16: approvePlace on a place that is approved already leaves it approved
\* with the slots it had, and leaves the image submissions as they were.
C16_ReapproveKeepsSlots ==
    (Quiet /\ resp.op = "approvePlace") =>
        \A p \in PlaceAt(pre.places, resp.placeId) :
            p.approved =>
                /\ \E q \in places : q.id = p.id /\ q.approved /\ SlotsOf(q) = SlotsOf(p)
                /\ submissions = pre.submissions

\* The list routes and the read routes, and what the claims about their
\* aggregates compare a response with: the review rows that reference a place,
\* and the sum of their ratings.
ListReads == {"getPlaces", "getPlacesForAdmin", "getPendingPlaces"}
Reads == ListReads \cup {"getPlace"}
ReviewsOf(R, placeId) == {v \in R : v.placeId = placeId}
SumOfRatings(V) ==
    Cardinality({v \in V : v.rating = 1}) + 2 * Cardinality({v \in V : v.rating = 2})
    + 3 * Cardinality({v \in V : v.rating = 3}) + 4 * Cardinality({v \in V : v.rating = 4})
    + 5 * Cardinality({v \in V : v.rating = 5})

\* total / count rounded half up to one decimal place, in tenths; 0 for no
\* review.
RoundHalfUp(total, count) ==
    IF count = 0 THEN 0 ELSE (20 * total + count) \div (2 * count)

\* C17: every place in the answer of a list route has as reviewCount the
\* number of its reviews and as averageRating the sum of their ratings over
\* that number, rounded half up to one decimal place (0 and 0 for no review).
C17_RoundHalfUp ==
    (resp.op \in ListReads /\ resp.status = 200) =>
        \A i \in 1..Len(resp.ret) :
            LET V == ReviewsOf(reviews, resp.ret[i].id)
            IN /\ resp.ret[i].reviewCount = Cardinality(V)
               /\ resp.ret[i].averageRating = RoundHalfUp(SumOfRatings(V), Cardinality(V))

\* C18: the reviewCount and averageRating a read route returns for a place
\* are those of exactly the review rows that reference the place when it is
\* read; buildPlaceWithReviews and buildPlacesBulk give the same two values
\* for every place, whatever order the reviews come in; and no place row has
\* a reviewCount or an averageRating column.
C18_FreshAggregates ==
    /\ (Quiet /\ resp.op \in Reads /\ resp.status = 200) =>
           \A i \in 1..Len(resp.ret) :
               LET V == ReviewsOf(reviews, resp.ret[i].id)
               IN /\ resp.ret[i].reviewCount = Cardinality(V)
                  /\ resp.ret[i].averageRating =
                         averageRating(SumOfRatings(V), Cardinality(V))
    /\ \A p \in places :
           /\ \A placeReviews \in AnyOrder(ReviewsOf(reviews, p.id)) :
                  LET single == buildPlaceWithReviews(p, placeReviews, FALSE)
                      bulk == buildPlacesBulk(<<p>>, reviews, FALSE)[1]
                  IN /\ single.reviewCount = bulk.reviewCount
                     /\ single.averageRating = bulk.averageRating
           /\ {"reviewCount", "averageRating"} \cap DOMAIN p = {}

\* A read that follows two review creations: a place returned with its two
\* reviews, of ratings 4 and 5.
C18_Witness ==
    /\ Quiet /\ resp.op \in Reads /\ resp.status = 200
    /\ \E i \in 1..Len(resp.ret) :
          resp.ret[i].reviewCount = 2 /\ resp.ret[i].averageRating = 45

\* C19: the answer of GET /api/places holds approved places only, newest
\* first, at most 200 of them (the newest when there are more), each with an
\* empty review list, its reviewCount and its averageRating.
C19_ListApproved ==
    (resp.op = "getPlaces" /\ resp.status = 200) =>
        LET n == Len(resp.ret)
            listed == {resp.ret[i].id : i \in 1..n}
        IN /\ n <= ListLimit
           /\ \A i \in 1..n :
                 /\ resp.ret[i].approved
                 /\ \E p \in places : p.id = resp.ret[i].id /\ p.approved
                 /\ resp.ret[i].reviews = <<>>
                 /\ resp.ret[i].reviewCount =
                        Cardinality(ReviewsOf(reviews, resp.ret[i].id))
                 /\ resp.ret[i].averageRating =
                        averageRating(SumOfRatings(ReviewsOf(reviews, resp.ret[i].id)),
                                      Cardinality(ReviewsOf(reviews, resp.ret[i].id)))
           /\ \A i \in 1..(n - 1) : createdAt(resp.ret[i]) > createdAt(resp.ret[i + 1])
           /\ \A p \in places :
                 (p.approved /\ p.id \notin listed) =>
                     /\ n = ListLimit
                     /\ createdAt(p) < createdAt(resp.ret[n])

\* The list cut at 200 with more approved places than that, and pending
\* places, in the table.
C19_Witness ==
    /\ resp.op = "getPlaces" /\ resp.status = 200
    /\ Len(resp.ret) = ListLimit
    /\ Cardinality({p \in places : p.approved}) > ListLimit
    /\ \E p \in places : ~p.approved

\* C20: GET /api/places/:id for the id of a place, approved or pending,
\* answers with the place, all of its reviews newest first, its reviewCount
\* and its averageRating; for an id of no place it answers 404.
C20_PlaceWithOrderedReviews ==
    (Quiet /\ resp.op = "getPlace" /\ resp.placeId \in PlaceIds) =>
        IF PlaceAt(places, resp.placeId) = {}
        THEN resp.status = 404
        ELSE /\ resp.status = 200
             /\ LET place == resp.ret[1]
                    V == ReviewsOf(reviews, resp.placeId)
                IN /\ place.id = resp.placeId
                   /\ Len(place.reviews) = Cardinality(V)
                   /\ {place.reviews[i] : i \in 1..Len(place.reviews)} = V
                   /\ \A i \in 1..(Len(place.reviews) - 1) :
                         createdAt(place.reviews[i]) > createdAt(place.reviews[i + 1])
                   /\ place.reviewCount = Cardinality(V)
                   /\ place.averageRating =
                         averageRating(SumOfRatings(V), Cardinality(V))

\* C21: POST /api/places inserts a row only for a non-empty name and a
\* non-empty location: a 201 answer carries such a row, a 400 answer names
\* the failing field and leaves the places table as it was, and no row of
\* the table has the empty string as name or location.
C21_NameAndLocationRequired ==
    /\ (Quiet /\ resp.op = "createPlace") =>
           IF resp.status = 201
           THEN resp.ret[1].name # "" /\ resp.ret[1].location # ""
           ELSE /\ resp.status = 400
                /\ resp.field # Null
                /\ places = pre.places
    /\ \A p \in places : p.name # "" /\ p.location # ""

\* The image submissions that wait for an admin, and the slots of a place
\* that hold a URL.
PendingImages(S) == {t \in S : ~t.approved}
FilledSlots(p) == {i \in 1..3 : SlotsOf(p)[i] # Null}

\* What C22 says of getAdminStats itself: the five numbers of an answer are
\* the counts of the tables it read.
StatsAreCounts ==
    (Quiet /\ resp.op = "getAdminStats" /\ resp.status = 200) =>
        LET stats == resp.ret[1]
        IN /\ stats.totalPlaces = Cardinality(places)
           /\ stats.approvedPlaces = Cardinality({p \in places : p.approved})
           /\ stats.pendingPlaces = stats.totalPlaces - stats.approvedPlaces
           /\ stats.approvedToday <= stats.approvedPlaces
           /\ stats.pendingImages = Cardinality(PendingImages(submissions))

\* pendingImages as getAdminStats would return it after a request, less what
\* it would have returned before it.
PendingImagesGrowth ==
    getAdminStats(places, submissions, MidnightBeforeNow).pendingImages
        - getAdminStats(pre.places, pre.submissions, MidnightBeforeNow).pendingImages

\* Approving a place adds one to pendingImages for every URL in its slots.
ApprovePlaceGrowth ==
    (Quiet /\ resp.op = "approvePlace" /\ resp.status = 200) =>
        \A p \in PlaceAt(pre.places, resp.placeId) :
            PendingImagesGrowth = Cardinality(FilledSlots(p))

EitherZero(placeLat, placeLng) == placeLat = 0 \/ placeLng = 0

\* C23: every place in the answer of GET /api/places/nearby whose latitude
\* or longitude is missing or zero has the distance Infinity and comes after
\* every place with both coordinates; the answer is in ascending order of
\* distance and has at most 20 places.
C23_NearbyOrder ==
    (resp.op = "getNearby" /\ resp.status = 200) =>
        LET n == Len(resp.ret)
            noCoordinates ==
                {i \in 1..n : EitherZero(parseFloat(OrZero(resp.ret[i].latitude)),
                                         parseFloat(OrZero(resp.ret[i].longitude)))}
        IN /\ n <= NearbyLimit
           /\ \A i \in 1..(n - 1) : resp.ret[i].distance <= resp.ret[i + 1].distance
           /\ \A i \in noCoordinates : resp.ret[i].distance = Infinity
           /\ \A i \in noCoordinates : \A j \in (1..n) \ noCoordinates : j < i

\* A rating that is missing, not a number, below 1 or above 5.
InvalidRating(rating) ==
    rating \in {Undefined, NotANumber} \/ rating < 10 \/ rating > 50

\* Every review row has a whole rating from 1 to 5, and the row a 201 answers
\* with has the rating of the request.
RatingsInRange ==
    /\ \A v \in reviews : v.rating \in 1..5
    /\ (Quiet /\ resp.op = "createReview" /\ resp.status = 201) =>
           /\ 10 * resp.ret[1].rating = resp.arg
           /\ resp.ret[1] \in reviews

C25_AllowListedHost ==
    \A t \in submissions : Hostname(t.imageUrl) = "res.cloudinary.com"

\* The URLs in the slots of a place.
SlotUrls(p) == {p.imageUrl1, p.imageUrl2, p.imageUrl3} \ {Null}

\* C26: when approveImageSubmission writes the URL of its submission into a
\* place that had two or more empty slots when the call read it, the URL of
\* every other approved submission of the place that was in a slot is still
\* in a slot afterwards.
C26_Step ==
    \A c \in Handlers :
        (/\ h[c].op = "approveImage" /\ h[c].pc = "setSlot" /\ h'[c].pc = "idle"
         /\ Cardinality(FilledSlots(h[c].rows[1])) <= 1) =>
            \A p \in PlaceAt(places, h[c].rows[1].id) :
                \A t \in submissions :
                    (/\ t.id # h[c].subId /\ t.placeId = p.id /\ t.approved
                     /\ t.imageUrl \in SlotUrls(p)) =>
                        \A q \in PlaceAt(places', p.id) : t.imageUrl \in SlotUrls(q)

C26_BothImagesKept == [][C26_Step]_vars

\* C27: the re-routing of approvePlace enqueues every creation-time URL once,
\* however the calls on the place interleave: after an INSERT of the
\* re-routing, the rows of the place with that URL, submitted in the name of
\* its creator, are no more than the slots that held the URL when the call
\* read the place.
C27_Step ==
    \A c \in Handlers :
        (/\ h[c].op = "approvePlace" /\ h[c].pc = "route" /\ h'[c] # h[c]
         /\ submissions' # submissions) =>
            LET p == h[c].rows[1]
                url == Head(h[c].urls)
            IN Cardinality({t \in submissions' :
                               /\ t.placeId = p.id /\ t.imageUrl = url
                               /\ t.submittedBy = p.createdBy})
                   <= Cardinality({i \in 1..3 : SlotsOf(p)[i] = url})

C27_RoutedOnce == [][C27_Step]_vars

\* C28: rejectPlace is all-or-nothing, also when it interleaves with
\* POST /api/places/:id/reviews: once no rejectPlace call is running, a place
\* that is present has not lost a review. Ids are never handed out twice, so
\* while every place ever created is present, every review ever inserted is
\* present too.
C28_RejectAllOrNothing ==
    (/\ \A c \in Handlers : h[c].op # "rejectPlace"
     /\ Cardinality(places) = nextPlaceId - 1) =>
        \A id \in 1..(nextReviewId - 1) : \E v \in reviews : v.id = id

\* C29: approving a submission that is approved already leaves the slots of
\* its place as they were, so that its URL is copied into one slot at most.
C29_ReapproveImageKeepsSlots ==
    (/\ Quiet /\ resp.op = "approveImage" /\ resp.status = 200
     /\ \E s \in pre.submissions : s.id = resp.subId /\ s.approved) =>
        \A p \in PlaceAt(pre.places, resp.ret[1].placeId) :
            \A q \in PlaceAt(places, p.id) : SlotsOf(q) = SlotsOf(p)

\* C30: the seed step decides to insert only when the places table is empty;
\* the seed rows are therefore inserted once, three places and one review of
\* the seed user at most, whatever the number of startups; and a startup
\* whose timer fires first inserts no row.
SeedRows(T) == {r \in T : IF "createdBy" \in DOMAIN r THEN r.createdBy = SeedUser
                                                         ELSE r.userId = SeedUser}
C30_Step ==
    \A c \in Handlers :
        (h[c].op = "seed" /\ h'[c] # h[c]) =>
            /\ (h[c].pc = "race" /\ h'[c].pc = "dubaiMall") => places = {}
            /\ (h[c].pc = "race" /\ h'[c].pc = "idle") =>
                   <<places, reviews, submissions>>' = <<places, reviews, submissions>>
            /\ Cardinality(SeedRows(places')) <= Len(SeedPlaces)
            /\ Cardinality(SeedRows(reviews')) <= 1

C30_SeedOnlyWhenEmpty == [][C30_Step]_vars
====
